---- MODULE Spec2Model ----
(***************************************************************************)
(* Model of the global-executor interface of the Swift concurrency runtime *)
(* (stdlib/public/Concurrency/GlobalExecutor.cpp): the four enqueue entry  *)
(* points with their hook slots, the main-executor override cells and the  *)
(* main-executor identity queries.  The backend engine that the entry      *)
(* points call into (the *Impl functions of the included .inc file) is     *)
(* modelled from its documented contract.                                  *)
(***************************************************************************)
EXTENDS Integers, Sequences, FiniteSets, TLC

\* ------------------------------------------------------------------ bounds
MaxJobs == 2          \* Jobs the producer creates in one run
NumThreads == 2       \* producer threads calling the enqueue entry points
MaxTime == 1          \* last tick at which the producer submits a Job
MaxDelay == 2         \* largest relative delay (in ticks) a caller passes

Jobs == 1..MaxJobs
Threads == 1..NumThreads

\* ------------------------------------------------------------- vocabulary
Entries == {"Global", "Delay", "Deadline", "Main"}
HookKinds == {"null", "count", "delegate"}
\* "null": slot unset; "count": a hook that counts its calls and never calls
\* the original; "delegate": a hook that calls the original once, same args.
Executors == {"exA", "exB"}        \* custom executor objects a program may install
Contexts == {"main"} \cup Executors \* serial execution contexts of the backend
NullId == "null"
DispatchMainQ == "dispatch_main_q"
Builds == [coop : BOOLEAN, dispatch : BOOLEAN]
DispatchBuild == [coop |-> FALSE, dispatch |-> TRUE]

VARIABLES
  build,      \* the build flags (fixed at compile time)
  hook,       \* the four hook slots
  idCell,     \* mainExecutorIdentityOverride
  implCell,   \* mainExecutorImplementationOverride
  pc,         \* position of each producer thread inside an entry point
  frame,      \* arguments and locals of the call a thread is in
  nextJob,    \* next Job the producer creates
  trace,      \* trace events emitted, per Job
  routed,     \* functions an entry point invoked directly, per Job
  hookCount,  \* invocation counter of the counting hook, per entry point
  waited,     \* ticks from the start of the Job's enqueue call to its start
  need,       \* least wait the Job's enqueue call asked for
  viaEntry,   \* entry point the Job was submitted through
  slotAt,     \* value of the entry point's hook slot when the call began
  began,      \* number of main-context calls that had returned when the call began
  passed,     \* arguments the call in progress invoked the hook or implementation with
  retOrder,   \* main-context Jobs in the order their enqueue calls returned
  now,        \* backend clock
  ready,      \* Jobs on the global concurrent queue
  timed,      \* Jobs in the timed wait structure, with their due time
  queue,      \* FIFO queue of each serial context
  running,    \* Jobs that serial contexts are executing
  runs,       \* number of times the Job's entry point was invoked
  ranOn,      \* thread the Job executed on
  runOrder,   \* Jobs of serial contexts in the order they started executing
  ovSeq,      \* number of Jobs created before the main-executor override, 0 if none
  query,      \* latest main-executor query: operation, reference, answer
  sema        \* latest derived-conformance call: operation, input, output

cfgVars == <<build, hook, idCell, implCell, ovSeq, query, sema>>
thrVars == <<pc, frame, nextJob>>
obsVars == <<trace, routed, hookCount, waited, need, viaEntry, slotAt, began,
            passed,
            retOrder>>
beVars == <<now, ready, timed, queue, running, runs, ranOn, runOrder>>
vars == <<cfgVars, thrVars, obsVars, beVars>>

NoFrame ==
  [entry |-> "none", job |-> 0, delay |-> 0, sec |-> 0, nsec |-> 0,
   tsec |-> 0, tnsec |-> 0, clock |-> 0, hk |-> "null"]

\* No derived-conformance call made yet.
NoCall == [op |-> "none"]

\* No main-executor query made yet.
NoQuery ==
  [op |-> "none", ref |-> [identity |-> NullId, impl |-> NullId],
   ans |-> FALSE]

\* No arguments received yet.
NoArgs ==
  [job |-> NoFrame.job, delay |-> NoFrame.delay, sec |-> NoFrame.sec,
   nsec |-> NoFrame.nsec, tsec |-> NoFrame.tsec, tnsec |-> NoFrame.tnsec,
   clock |-> NoFrame.clock]

\* ---------------------------------------------------------- hook slots
\* The four slots start out as null function pointers.
\* (mutation: _preset, a slot that starts out holding a hook)
swift_task_enqueueGlobal_hook_preset == "count"
swift_task_enqueueGlobal_hook == "null"
swift_task_enqueueGlobalWithDelay_hook == "null"
swift_task_enqueueGlobalWithDeadline_hook == "null"
swift_task_enqueueMainExecutor_hook == "null"

InitHooks ==
  [e \in Entries |->
     CASE e = "Global" -> swift_task_enqueueGlobal_hook
       [] e = "Delay" -> swift_task_enqueueGlobalWithDelay_hook
       [] e = "Deadline" -> swift_task_enqueueGlobalWithDeadline_hook
       [] e = "Main" -> swift_task_enqueueMainExecutor_hook]

\* The executor's state after construction, under one of the builds b.
ExecutorInit(b) ==
  /\ build \in b
  /\ hook = InitHooks
  /\ idCell = NullId
  /\ implCell = NullId
  /\ ovSeq = 0
  /\ query = NoQuery
  /\ pc = [t \in Threads |-> "idle"]
  /\ frame = [t \in Threads |-> NoFrame]
  /\ nextJob = 1
  /\ trace = [j \in Jobs |-> <<>>]
  /\ routed = [j \in Jobs |-> <<>>]
  /\ hookCount = [e \in Entries |-> 0]
  /\ waited = [j \in Jobs |-> 0]
  /\ need = [j \in Jobs |-> 0]
  /\ viaEntry = [j \in Jobs |-> "none"]
  /\ slotAt = [j \in Jobs |-> "null"]
  /\ began = [j \in Jobs |-> 0]
  /\ passed = [j \in Jobs |-> NoArgs]
  /\ retOrder = <<>>
  /\ now = 0
  /\ ready = {}
  /\ timed = {}
  /\ queue = [c \in Contexts |-> <<>>]
  /\ running = {}
  /\ runs = [j \in Jobs |-> 0]
  /\ ranOn = [j \in Jobs |-> "none"]
  /\ runOrder = <<>>

InitFor(b) ==
  /\ ExecutorInit(b)
  /\ sema = NoCall

Init == InitFor({DispatchBuild})

\* ------------------------------------------------- enqueue entry points
\* Trace event an entry point emits on entry.
TraceEvents(e) ==
  CASE e = "Global" -> <<"job_enqueue_global">>
    [] e = "Delay" -> <<"job_enqueue_global_with_delay">>
    [] e = "Deadline" -> <<>>
    [] e = "Main" -> <<"job_enqueue_main_executor">>

\* (mutation) the main-context entry point names the implementation of the
\* immediate entry point.
OriginalOf_mainAsGlobal(e) ==
  IF e \in {"Global", "Main"}
    THEN "swift_task_enqueueGlobalImpl"
    ELSE IF e = "Delay"
      THEN "swift_task_enqueueGlobalWithDelayImpl"
      ELSE "swift_task_enqueueGlobalWithDeadlineImpl"

\* Default implementation an entry point calls, or hands to its hook as
\* the original.
OriginalOf(e) ==
  CASE e = "Global" -> "swift_task_enqueueGlobalImpl"
    [] e = "Delay" -> "swift_task_enqueueGlobalWithDelayImpl"
    [] e = "Deadline" -> "swift_task_enqueueGlobalWithDeadlineImpl"
    [] e = "Main" -> "swift_task_enqueueMainExecutorImpl"

\* (mutation) the slot is called without the null test.
HookBranch_noNullTest(h) == "hook"

\* (mutation) the slot is never consulted.
HookBranch_ignoresSlot(h) == "impl"

\* (mutation) the test is inverted.
HookBranch_inverted(h) == IF h # "null" THEN "impl" ELSE "hook"

\* The test `if (<slot>)` of an entry point: the branch taken for the
\* value h read from the slot.
HookBranch(h) == IF h # "null" THEN "hook" ELSE "impl"

\* (mutation) the seconds and the nanoseconds of the deadline are passed
\* on in each other's place.
PassedArgs_swapsSecNsec(f) ==
  [job |-> f.job, delay |-> f.delay, sec |-> f.nsec, nsec |-> f.sec,
   tsec |-> f.tsec, tnsec |-> f.tnsec, clock |-> f.clock]

\* (mutation) the delay is not passed on.
PassedArgs_dropsDelay(f) ==
  [job |-> f.job, delay |-> 0, sec |-> f.sec, nsec |-> f.nsec,
   tsec |-> f.tsec, tnsec |-> f.tnsec, clock |-> f.clock]

\* (mutation) the two time values are passed on in each other's place.
PassedArgs_swapsTimes(f) ==
  [job |-> f.job, delay |-> f.delay, sec |-> f.tsec, nsec |-> f.tnsec,
   tsec |-> f.sec, tnsec |-> f.nsec, clock |-> f.clock]

\* (mutation) the delay is passed on as its magnitude.
PassedArgs_absDelay(f) ==
  [job |-> f.job, delay |-> IF f.delay < 0 THEN 0 - f.delay ELSE f.delay,
   sec |-> f.sec, nsec |-> f.nsec,
   tsec |-> f.tsec, tnsec |-> f.tnsec, clock |-> f.clock]

\* Arguments an entry point passes on to the hook or the implementation.
PassedArgs(f) ==
  [job |-> f.job, delay |-> f.delay, sec |-> f.sec, nsec |-> f.nsec,
   tsec |-> f.tsec, tnsec |-> f.tnsec, clock |-> f.clock]

\* Ticks of a (sec, nsec) time value: the clock ticks in the units of the
\* nanosecond field, which takes the values Nsecs.
Nsecs == {0, 1}
TicksPerSec == Cardinality(Nsecs)
ToTicks(sec, nsec) == sec * TicksPerSec + nsec

\* Least wait the caller of entry point e asks for with frame f.
AskedWait(e, f) ==
  CASE e = "Delay" -> f.delay
    [] e = "Deadline" -> ToTicks(f.sec, f.nsec) - ToTicks(f.tsec, f.tnsec)
    [] OTHER -> 0

\* A thread enters entry point e with a fresh Job and emits the entry
\* point's trace event.
Call(t, e, f) ==
  /\ pc[t] = "idle"
  /\ nextJob <= MaxJobs
  /\ now <= MaxTime
  /\ LET j == nextJob IN
       /\ frame' = [frame EXCEPT ![t] = [f EXCEPT !.entry = e, !.job = j]]
       /\ trace' = [trace EXCEPT ![j] = @ \o TraceEvents(e)]
       /\ need' = [need EXCEPT ![j] = AskedWait(e, f)]
       /\ viaEntry' = [viaEntry EXCEPT ![j] = e]
       /\ slotAt' = [slotAt EXCEPT ![j] = hook[e]]
       /\ began' = [began EXCEPT ![j] = Len(retOrder)]
  /\ nextJob' = nextJob + 1
  /\ pc' = [pc EXCEPT ![t] = "check"]
  /\ UNCHANGED <<cfgVars, beVars, routed, hookCount, waited, passed, retOrder>>

swift_task_enqueueGlobal(t) == Call(t, "Global", NoFrame)

swift_task_enqueueGlobalWithDelay(t, delay) ==
  Call(t, "Delay", [NoFrame EXCEPT !.delay = delay])

swift_task_enqueueGlobalWithDeadline(t, sec, nsec, tsec, tnsec, clock) ==
  Call(t, "Deadline", [NoFrame EXCEPT !.sec = sec, !.nsec = nsec,
                         !.tsec = tsec, !.tnsec = tnsec, !.clock = clock])

swift_task_enqueueMainExecutor(t) == Call(t, "Main", NoFrame)

\* (mutation) the entry point takes the hook out of its slot when it
\* tests it.
LoadHook_consumesHook(t) ==
  /\ pc[t] = "check"
  /\ frame' = [frame EXCEPT ![t].hk = hook[frame[t].entry]]
  /\ pc' = [pc EXCEPT ![t] = HookBranch(hook[frame[t].entry])]
  /\ hook' = [hook EXCEPT ![frame[t].entry] = "null"]
  /\ UNCHANGED <<build, idCell, implCell, ovSeq, query, sema, nextJob, obsVars,
                 beVars>>

\* The entry point tests its hook slot.
LoadHook(t) ==
  /\ pc[t] = "check"
  /\ frame' = [frame EXCEPT ![t].hk = hook[frame[t].entry]]
  /\ pc' = [pc EXCEPT ![t] = HookBranch(hook[frame[t].entry])]
  /\ UNCHANGED <<cfgVars, nextJob, obsVars, beVars>>

\* ------------------------------------- backend contract (default impls)
WitnessTable(x) == IF x = "exA" THEN "wtA" ELSE "wtB"
Wtables == {WitnessTable(x) : x \in Executors}
OwnerOf(w) == CHOOSE x \in Executors : WitnessTable(x) = w

swift_task_enqueueGlobalImpl(j) ==
  /\ ready' = ready \cup {j}
  /\ UNCHANGED <<timed, queue>>

swift_task_enqueueGlobalWithDelayImpl(delay, j) ==
  IF delay <= 0
    THEN swift_task_enqueueGlobalImpl(j)
    ELSE /\ timed' = timed \cup {<<j, now + delay>>}
         /\ UNCHANGED <<ready, queue>>

swift_task_enqueueGlobalWithDeadlineImpl(sec, nsec, tsec, tnsec, clock, j) ==
  swift_task_enqueueGlobalWithDelayImpl(
    ToTicks(sec, nsec) - ToTicks(tsec, tnsec), j)

\* The serial context main-context Jobs are handed to: the override's
\* executor once one is installed, the built-in main queue before.
MainContext == IF implCell \in Wtables THEN OwnerOf(implCell) ELSE "main"

swift_task_enqueueMainExecutorImpl(j) ==
  /\ queue' = [queue EXCEPT ![MainContext] = Append(@, j)]
  /\ UNCHANGED <<ready, timed>>

\* (mutation) the deadline implementation is not called.
RunImpl_dropsDeadline(impl, a) ==
  CASE impl = "swift_task_enqueueGlobalImpl" ->
         swift_task_enqueueGlobalImpl(a.job)
    [] impl = "swift_task_enqueueGlobalWithDelayImpl" ->
         swift_task_enqueueGlobalWithDelayImpl(a.delay, a.job)
    [] impl = "swift_task_enqueueGlobalWithDeadlineImpl" ->
         UNCHANGED <<ready, timed, queue>>
    [] impl = "swift_task_enqueueMainExecutorImpl" ->
         swift_task_enqueueMainExecutorImpl(a.job)

\* (mutation) the main-context implementation is called twice.
RunImpl_mainTwice(impl, a) ==
  CASE impl = "swift_task_enqueueGlobalImpl" ->
         swift_task_enqueueGlobalImpl(a.job)
    [] impl = "swift_task_enqueueGlobalWithDelayImpl" ->
         swift_task_enqueueGlobalWithDelayImpl(a.delay, a.job)
    [] impl = "swift_task_enqueueGlobalWithDeadlineImpl" ->
         swift_task_enqueueGlobalWithDeadlineImpl(
           a.sec, a.nsec, a.tsec, a.tnsec, a.clock, a.job)
    [] impl = "swift_task_enqueueMainExecutorImpl" ->
         /\ queue' = [queue EXCEPT
                        ![MainContext] = Append(Append(@, a.job), a.job)]
         /\ UNCHANGED <<ready, timed>>

\* Call of the implementation named impl with the arguments a.
RunImpl(impl, a) ==
  CASE impl = "swift_task_enqueueGlobalImpl" ->
         swift_task_enqueueGlobalImpl(a.job)
    [] impl = "swift_task_enqueueGlobalWithDelayImpl" ->
         swift_task_enqueueGlobalWithDelayImpl(a.delay, a.job)
    [] impl = "swift_task_enqueueGlobalWithDeadlineImpl" ->
         swift_task_enqueueGlobalWithDeadlineImpl(
           a.sec, a.nsec, a.tsec, a.tnsec, a.clock, a.job)
    [] impl = "swift_task_enqueueMainExecutorImpl" ->
         swift_task_enqueueMainExecutorImpl(a.job)

\* (mutation) the else is missing: after the hook the default
\* implementation is called as well.
InvokeHook_fallsThrough(t) ==
  /\ pc[t] = "hook"
  /\ LET e == frame[t].entry
         a == PassedArgs(frame[t])
         h == hook[e]
     IN /\ routed' = [routed EXCEPT ![a.job] = <<h, OriginalOf(e)>>]
        /\ passed' = [passed EXCEPT ![a.job] = a]
        /\ hookCount' = [hookCount EXCEPT ![e] = IF h = "count" THEN @ + 1 ELSE @]
        /\ RunImpl(OriginalOf(e), a)
  /\ pc' = [pc EXCEPT ![t] = "ret"]
  /\ UNCHANGED <<cfgVars, frame, nextJob, trace, waited, need, viaEntry, slotAt,
                 began, retOrder>>
  /\ UNCHANGED <<now, running, runs, ranOn, runOrder>>

\* (mutation) every hook is handed the implementation of the immediate
\* entry point as its original.
InvokeHook_wrongOriginal(t) ==
  /\ pc[t] = "hook"
  /\ LET e == frame[t].entry
         a == PassedArgs(frame[t])
     IN \E h \in {frame[t].hk, hook[e]} :
          /\ routed' = [routed EXCEPT ![a.job] = Append(@, h)]
          /\ passed' = [passed EXCEPT ![a.job] = a]
          /\ IF h = "null"
               THEN /\ pc' = [pc EXCEPT ![t] = "crashed"]
                    /\ UNCHANGED <<hookCount, ready, timed, queue>>
               ELSE /\ pc' = [pc EXCEPT ![t] = "ret"]
                    /\ IF h = "count"
                         THEN /\ hookCount' = [hookCount EXCEPT ![e] = @ + 1]
                              /\ UNCHANGED <<ready, timed, queue>>
                         ELSE /\ RunImpl("swift_task_enqueueGlobalImpl", a)
                              /\ UNCHANGED hookCount
  /\ UNCHANGED <<cfgVars, frame, nextJob, trace, waited, need, viaEntry, slotAt,
                 began, retOrder>>
  /\ UNCHANGED <<now, running, runs, ranOn, runOrder>>

\* (mutation) the hook is handed the public entry point as its original:
\* a delegating hook emits the trace event again and comes back into the
\* hook before the Job reaches the implementation.
InvokeHook_publicOriginal(t) ==
  /\ pc[t] = "hook"
  /\ LET e == frame[t].entry
         a == PassedArgs(frame[t])
         h == hook[e]
     IN /\ passed' = [passed EXCEPT ![a.job] = a]
        /\ pc' = [pc EXCEPT ![t] = "ret"]
        /\ IF h = "delegate"
             THEN /\ routed' = [routed EXCEPT ![a.job] = <<h, h>>]
                  /\ trace' = [trace EXCEPT ![a.job] = @ \o TraceEvents(e)]
                  /\ RunImpl(OriginalOf(e), a)
                  /\ UNCHANGED hookCount
             ELSE /\ routed' = [routed EXCEPT ![a.job] = <<h>>]
                  /\ hookCount' = [hookCount EXCEPT ![e] = @ + 1]
                  /\ UNCHANGED <<trace, ready, timed, queue>>
  /\ UNCHANGED <<cfgVars, frame, nextJob, waited, need, viaEntry, slotAt,
                 began, retOrder>>
  /\ UNCHANGED <<now, running, runs, ranOn, runOrder>>

\* The hook branch: the slot is read again for the call.  The hook gets
\* the arguments and the entry point's default implementation.
InvokeHook(t) ==
  /\ pc[t] = "hook"
  /\ LET e == frame[t].entry
         a == PassedArgs(frame[t])
     IN \E h \in {frame[t].hk, hook[e]} :
          /\ routed' = [routed EXCEPT ![a.job] = Append(@, h)]
          /\ passed' = [passed EXCEPT ![a.job] = a]
          /\ IF h = "null"
               THEN /\ pc' = [pc EXCEPT ![t] = "crashed"]
                    /\ UNCHANGED <<hookCount, ready, timed, queue>>
               ELSE /\ pc' = [pc EXCEPT ![t] = "ret"]
                    /\ IF h = "count"
                         THEN /\ hookCount' = [hookCount EXCEPT ![e] = @ + 1]
                              /\ UNCHANGED <<ready, timed, queue>>
                         ELSE /\ RunImpl(OriginalOf(e), a)
                              /\ UNCHANGED hookCount
  /\ UNCHANGED <<cfgVars, frame, nextJob, trace, waited, need, viaEntry, slotAt,
                 began, retOrder>>
  /\ UNCHANGED <<now, running, runs, ranOn, runOrder>>

\* (mutation) the else branch executes the Job in place, on the calling
\* thread, instead of handing it to the backend.
InvokeImpl_runsInline(t) ==
  /\ pc[t] = "impl"
  /\ LET e == frame[t].entry
         a == PassedArgs(frame[t])
     IN /\ routed' = [routed EXCEPT ![a.job] = Append(@, OriginalOf(e))]
        /\ passed' = [passed EXCEPT ![a.job] = a]
        /\ runs' = [runs EXCEPT ![a.job] = @ + 1]
        /\ ranOn' = [ranOn EXCEPT ![a.job] = "caller"]
  /\ pc' = [pc EXCEPT ![t] = "ret"]
  /\ UNCHANGED <<cfgVars, frame, nextJob, trace, hookCount, waited, need,
                 viaEntry, slotAt, began, retOrder>>
  /\ UNCHANGED <<now, ready, timed, queue, running, runOrder>>

\* The else branch: the default implementation is called directly.
InvokeImpl(t) ==
  /\ pc[t] = "impl"
  /\ LET e == frame[t].entry
         a == PassedArgs(frame[t])
     IN /\ routed' = [routed EXCEPT ![a.job] = Append(@, OriginalOf(e))]
        /\ passed' = [passed EXCEPT ![a.job] = a]
        /\ RunImpl(OriginalOf(e), a)
  /\ pc' = [pc EXCEPT ![t] = "ret"]
  /\ UNCHANGED <<cfgVars, frame, nextJob, trace, hookCount, waited, need,
                 viaEntry, slotAt, began, retOrder>>
  /\ UNCHANGED <<now, running, runs, ranOn, runOrder>>

\* The entry point returns to its caller.
Return(t) ==
  /\ pc[t] = "ret"
  /\ retOrder' = IF frame[t].entry = "Main"
                   THEN Append(retOrder, frame[t].job)
                   ELSE retOrder
  /\ passed' = [passed EXCEPT ![frame[t].job] = NoArgs]
  /\ frame' = [frame EXCEPT ![t] = NoFrame]
  /\ pc' = [pc EXCEPT ![t] = "idle"]
  /\ UNCHANGED <<cfgVars, nextJob, trace, routed, hookCount, waited, need,
                 viaEntry, slotAt, began, beVars>>

\* ------------------------------------------------ backend execution
\* The clock advances; it keeps advancing while a timer is pending.
Tick ==
  /\ \/ now < MaxTime
     \/ \E x \in timed : x[2] > now
  /\ now' = now + 1
  /\ waited' = [j \in Jobs |->
                  IF viaEntry[j] # "none" /\ runs[j] = 0
                    THEN waited[j] + 1
                    ELSE waited[j]]
  /\ UNCHANGED <<cfgVars, thrVars, trace, routed, hookCount, need, viaEntry,
                 slotAt, began, passed, retOrder, ready, timed, queue, running, runs,
                 ranOn, runOrder>>

\* A timer whose due time has come moves its Job to the concurrent queue.
TimerFire(j) ==
  /\ \E x \in timed :
       /\ x[1] = j
       /\ x[2] <= now
       /\ timed' = timed \ {x}
  /\ ready' = ready \cup {j}
  /\ UNCHANGED <<cfgVars, thrVars, obsVars, now, queue, running, runs,
                 ranOn, runOrder>>

\* A worker thread of the concurrent queue invokes a Job's entry point.
WorkerRun(j) ==
  /\ j \in ready
  /\ ready' = ready \ {j}
  /\ runs' = [runs EXCEPT ![j] = @ + 1]
  /\ ranOn' = [ranOn EXCEPT ![j] = "worker"]
  /\ UNCHANGED <<cfgVars, thrVars, obsVars, now, timed, queue, running, runOrder>>

\* The thread of a serial context takes the Job at the head of its queue
\* when it is executing no other Job.
SerialStart(c) ==
  /\ \A j \in running : ranOn[j] # c
  /\ queue[c] # <<>>
  /\ LET j == Head(queue[c]) IN
       /\ running' = running \cup {j}
       /\ runs' = [runs EXCEPT ![j] = @ + 1]
       /\ ranOn' = [ranOn EXCEPT ![j] = c]
       /\ runOrder' = Append(runOrder, j)
  /\ queue' = [queue EXCEPT ![c] = Tail(@)]
  /\ UNCHANGED <<cfgVars, thrVars, obsVars, now, ready, timed>>

\* A Job that a serial context is executing finishes.
SerialFinish(c) ==
  /\ \E j \in running :
       /\ ranOn[j] = c
       /\ running' = running \ {j}
  /\ UNCHANGED <<cfgVars, thrVars, obsVars, now, ready, timed, queue, runs,
                 ranOn, runOrder>>

\* --------------------------------------------------- configuration
Quiescent == \A t \in Threads : pc[t] = "idle"

\* (mutation) the four slots are one: a write to the slot of any entry
\* point is also a write to the slot of the main-context entry point.
SetHook_sharedSlot(e, h) ==
  /\ Quiescent
  /\ h # hook[e]
  /\ hook' = [hook EXCEPT ![e] = h, !["Main"] = h]
  /\ UNCHANGED <<build, idCell, implCell, ovSeq, query, sema, thrVars, obsVars,
                 beVars>>

\* Configuration code installs (h # "null") or clears (h = "null") the
\* hook of entry point e while no enqueue call is in progress.
SetHook(e, h) ==
  /\ Quiescent
  /\ h # hook[e]
  /\ hook' = [hook EXCEPT ![e] = h]
  /\ UNCHANGED <<build, idCell, implCell, ovSeq, query, sema, thrVars, obsVars,
                 beVars>>

\* Configuration code writes the slot of entry point e at any moment,
\* also while enqueue calls are in progress on other threads.
WriteHook(e, h) ==
  /\ h # hook[e]
  /\ hook' = [hook EXCEPT ![e] = h]
  /\ UNCHANGED <<build, idCell, implCell, ovSeq, query, sema, thrVars, obsVars,
                 beVars>>

\* Configuration code installs the same kind of hook in all four slots
\* (or clears all four) while no enqueue call is in progress.
SetAllHooks(h) ==
  /\ Quiescent
  /\ \E e \in Entries : hook[e] # h
  /\ hook' = [e \in Entries |-> h]
  /\ UNCHANGED <<build, idCell, implCell, ovSeq, query, sema, thrVars, obsVars,
                 beVars>>

\* The backend stores the override pair.
swift_concurrency_setMainActorExecutorImpl(executor, selfType, wtable) ==
  /\ idCell' = executor
  /\ implCell' = wtable

\* (mutation) the witness table is not passed on.
SetterArgs_dropsWtable(executor, selfType, wtable) ==
  <<executor, selfType, NullId>>

\* (mutation) the type metadata is passed in the executor's place.
SetterArgs_typeAsExecutor(executor, selfType, wtable) ==
  <<selfType, selfType, wtable>>

\* Arguments the public setter passes on to the backend.
SetterArgs(executor, selfType, wtable) == <<executor, selfType, wtable>>

\* (mutation) installing the override empties the built-in main queue.
swift_concurrency_setMainActorExecutor_flushes(executor, selfType, wtable) ==
  /\ idCell = NullId
  /\ swift_concurrency_setMainActorExecutorImpl(executor, selfType, wtable)
  /\ ovSeq' = nextJob
  /\ queue' = [queue EXCEPT !["main"] = <<>>]
  /\ UNCHANGED <<build, hook, query, sema, thrVars, obsVars, now, ready, timed,
                 running,
                 runs, ranOn, runOrder>>

\* The public setter of the main-context override.
swift_concurrency_setMainActorExecutor(executor, selfType, wtable) ==
  /\ idCell = NullId
  /\ LET a == SetterArgs(executor, selfType, wtable) IN
       swift_concurrency_setMainActorExecutorImpl(a[1], a[2], a[3])
  /\ ovSeq' = nextJob
  /\ UNCHANGED <<build, hook, query, sema, thrVars, obsVars, beVars>>

\* ---------------------------------------------------- backend selection
\* The conditional inclusion of the backend engine: the branches of the
\* #if / #elif / #else chain in order, each with its condition under the
\* build flags b.
BackendChain(b) ==
  <<[when |-> b.coop, file |-> "CooperativeGlobalExecutor.inc"],
    [when |-> b.dispatch, file |-> "DispatchGlobalExecutor.inc"],
    [when |-> TRUE, file |-> "NonDispatchGlobalExecutor.inc"]>>

\* (mutation) the branches are separate #if blocks.
IncludedBackends_separateIfs(b) ==
  {BackendChain(b)[k].file :
     k \in {i \in 1..Len(BackendChain(b)) : BackendChain(b)[i].when}}

\* Engines the preprocessor includes: a branch is taken when its condition
\* holds and no earlier branch was taken.
IncludedBackends(b) ==
  {BackendChain(b)[k].file :
     k \in {i \in 1..Len(BackendChain(b)) :
              /\ BackendChain(b)[i].when
              /\ \A m \in 1..(i - 1) : ~BackendChain(b)[m].when}}

\* ------------------------------------------------ executor references
GenericRef == [identity |-> NullId, impl |-> NullId]
forOrdinary(identity, wtable) == [identity |-> identity, impl |-> wtable]
isGeneric(ref) == ref.identity = NullId

\* Equality of executor references: the identities are compared, the
\* witness tables are not.
ExecutorRefEq(a, b) == a.identity = b.identity

\* (mutation) the override, once installed, is returned.
swift_task_getMainExecutor_readsOverride ==
  IF idCell # NullId
    THEN forOrdinary(idCell, implCell)
    ELSE IF ~build.dispatch
      THEN GenericRef
      ELSE forOrdinary(DispatchMainQ, "dispatch_queue_wtable")

swift_task_getMainExecutor ==
  IF ~build.dispatch
    THEN GenericRef
    ELSE forOrdinary(DispatchMainQ, "dispatch_queue_wtable")

\* (mutation) the whole reference, witness table included, is compared
\* with the built-in main executor.
isMainExecutor_wholeRef(ref) == ref = swift_task_getMainExecutor

isMainExecutor(ref) ==
  IF ~build.dispatch
    THEN isGeneric(ref)
    ELSE ref.identity = DispatchMainQ

\* Executor references a program can hold: the generic reference and
\* ordinary references to the dispatch main queue or a custom executor,
\* with any witness table.
Refs ==
  {GenericRef} \cup
  {forOrdinary(i, w) : i \in {DispatchMainQ} \cup Executors,
                       w \in {"dispatch_queue_wtable"} \cup Wtables}

\* A thread calls swift_task_getMainExecutor and keeps the reference.
GetMainExecutorCall ==
  /\ query' = [op |-> "getMain", ref |-> swift_task_getMainExecutor,
               ans |-> FALSE]
  /\ UNCHANGED <<build, hook, idCell, implCell, ovSeq, sema, thrVars, obsVars,
                 beVars>>

\* A thread calls isMainExecutor on the reference ref and keeps the answer.
IsMainExecutorCall(ref) ==
  /\ query' = [op |-> "isMain", ref |-> ref, ans |-> isMainExecutor(ref)]
  /\ UNCHANGED <<build, hook, idCell, implCell, ovSeq, sema, thrVars, obsVars,
                 beVars>>

\* ------------------------------------------------------ specification
Delays == (0 - 1)..MaxDelay
Secs == {0, 1}
Clocks == {1}

\* Steps of a thread inside an entry point.
Step ==
  \E t \in Threads :
    \/ LoadHook(t)
    \/ InvokeHook(t)
    \/ InvokeImpl(t)
    \/ Return(t)

\* Routing: all four entry points and all four hook slots; Jobs are handed
\* to the backend, whose execution is left out.
Next ==
  \/ \E t \in Threads : swift_task_enqueueGlobal(t)
  \/ \E t \in Threads : swift_task_enqueueGlobalWithDelay(t, MaxDelay)
  \/ \E t \in Threads, clock \in Clocks :
       swift_task_enqueueGlobalWithDeadline(t, 1, 0, 0, 1, clock)
  \/ \E t \in Threads : swift_task_enqueueMainExecutor(t)
  \/ Step
  \/ \E e \in Entries, h \in HookKinds : SetHook(e, h)

Spec == Init /\ [][Next]_vars

\* The immediate entry point with its hook slot, and the concurrent queue.
GlobalNext ==
  \/ \E t \in Threads : swift_task_enqueueGlobal(t)
  \/ Step
  \/ \E h \in HookKinds : SetHook("Global", h)
  \/ \E j \in Jobs : WorkerRun(j)

GlobalSpec ==
  /\ Init
  /\ [][GlobalNext]_vars
  /\ \A t \in Threads :
       WF_vars(LoadHook(t) \/ InvokeHook(t) \/ InvokeImpl(t) \/ Return(t))
  /\ \A j \in Jobs : WF_vars(WorkerRun(j))

\* The clock, the timers and the workers of the concurrent queue.
TimedBackend ==
  \/ Tick
  \/ \E j \in Jobs : TimerFire(j)
  \/ \E j \in Jobs : WorkerRun(j)

\* The timing of one producer's Jobs does not depend on other producers:
\* the timed specifications have a single producer thread.
Producer == {CHOOSE t \in Threads : TRUE}

\* The delayed entry point with its hook slot.
DelayNext ==
  \/ \E t \in Producer, d \in Delays : swift_task_enqueueGlobalWithDelay(t, d)
  \/ Step
  \/ \E h \in {"null", "delegate"} : SetHook("Delay", h)
  \/ TimedBackend

DelaySpec == Init /\ [][DelayNext]_vars

\* The deadline entry point with its hook slot.
DeadlineNext ==
  \/ \E t \in Producer, sec \in Secs, nsec \in Nsecs, tnsec \in Nsecs,
        clock \in Clocks :
       swift_task_enqueueGlobalWithDeadline(t, sec, nsec, 0, tnsec, clock)
  \/ Step
  \/ \E h \in {"null", "delegate"} : SetHook("Deadline", h)
  \/ TimedBackend

DeadlineSpec == Init /\ [][DeadlineNext]_vars

\* The main-context entry point with its hook slot and the built-in main
\* queue, with no override.
SerialNext ==
  \/ \E t \in Threads : swift_task_enqueueMainExecutor(t)
  \/ Step
  \/ \E h \in {"null", "count"} : SetHook("Main", h)
  \/ SerialStart("main")
  \/ SerialFinish("main")

SerialSpec == Init /\ [][SerialNext]_vars

\* The same, with every call running to its return and the main thread
\* taking and finishing Jobs as long as there are any.
SerialFairSpec ==
  /\ SerialSpec
  /\ \A t \in Threads :
       WF_vars(LoadHook(t) \/ InvokeHook(t) \/ InvokeImpl(t) \/ Return(t))
  /\ WF_vars(SerialStart("main"))
  /\ WF_vars(SerialFinish("main"))

\* One producer, all four entry points with delegating hooks installed
\* or cleared together, and the whole backend without an override.
RunNext ==
  \/ \E t \in Producer : swift_task_enqueueGlobal(t)
  \/ \E t \in Producer : swift_task_enqueueGlobalWithDelay(t, 1)
  \/ \E t \in Producer, clock \in Clocks :
       swift_task_enqueueGlobalWithDeadline(t, 1, 0, 0, 1, clock)
  \/ \E t \in Producer : swift_task_enqueueMainExecutor(t)
  \/ Step
  \/ \E h \in {"null", "delegate"} : SetAllHooks(h)
  \/ TimedBackend
  \/ SerialStart("main")
  \/ SerialFinish("main")

RunSpec == Init /\ [][RunNext]_vars

\* One producer, all four entry points, delegating hooks installed at
\* some moment, the main-context override installed at some moment, and
\* the whole backend with the serial context of the overriding executor.
PendingNext ==
  \/ \E t \in Producer : swift_task_enqueueGlobal(t)
  \/ \E t \in Producer : swift_task_enqueueGlobalWithDelay(t, 1)
  \/ \E t \in Producer, clock \in Clocks :
       swift_task_enqueueGlobalWithDeadline(t, 1, 0, 0, 1, clock)
  \/ \E t \in Producer : swift_task_enqueueMainExecutor(t)
  \/ Step
  \/ SetAllHooks("delegate")
  \/ swift_concurrency_setMainActorExecutor("exA", "Self", WitnessTable("exA"))
  \/ TimedBackend
  \/ \E c \in {"main", "exA"} : SerialStart(c)
  \/ \E c \in {"main", "exA"} : SerialFinish(c)

PendingSpec == Init /\ [][PendingNext]_vars

\* The delayed and the deadline entry point of one producer with a fair
\* backend: every call runs to its return, the clock advances, timers that
\* are due fire and workers take the Jobs that are ready.
TimedFairNext ==
  \/ \E t \in Producer, d \in {0, MaxDelay} :
       swift_task_enqueueGlobalWithDelay(t, d)
  \/ \E t \in Producer, clock \in Clocks :
       swift_task_enqueueGlobalWithDeadline(t, 1, 0, 0, 1, clock)
  \/ Step
  \/ \E h \in {"null", "count"} : SetHook("Delay", h)
  \/ TimedBackend

TimedFairSpec ==
  /\ Init
  /\ [][TimedFairNext]_vars
  /\ \A t \in Threads :
       WF_vars(LoadHook(t) \/ InvokeHook(t) \/ InvokeImpl(t) \/ Return(t))
  /\ WF_vars(Tick)
  /\ \A j \in Jobs : WF_vars(TimerFire(j))
  /\ \A j \in Jobs : WF_vars(WorkerRun(j))

\* Calls of the immediate entry point racing with writes to its slot.
RaceNext ==
  \/ \E t \in Threads : swift_task_enqueueGlobal(t)
  \/ Step
  \/ \E h \in HookKinds : WriteHook("Global", h)

RaceSpec == Init /\ [][RaceNext]_vars

\* Everything that touches the shared configuration: one producer calling
\* the four entry points, each hook slot installed and cleared on its own,
\* the override setter and the main-executor queries.
ConfigNext ==
  \/ \E t \in Producer : swift_task_enqueueGlobal(t)
  \/ \E t \in Producer : swift_task_enqueueGlobalWithDelay(t, 1)
  \/ \E t \in Producer, clock \in Clocks :
       swift_task_enqueueGlobalWithDeadline(t, 1, 0, 0, 1, clock)
  \/ \E t \in Producer : swift_task_enqueueMainExecutor(t)
  \/ Step
  \/ \E e \in Entries, h \in {"null", "count"} : SetHook(e, h)
  \/ swift_concurrency_setMainActorExecutor("exA", "Self", WitnessTable("exA"))
  \/ GetMainExecutorCall
  \/ \E ref \in {GenericRef, swift_task_getMainExecutor} :
       IsMainExecutorCall(ref)

ConfigSpec == Init /\ [][ConfigNext]_vars

\* The main-executor queries in every build configuration, before and
\* after an override, next to main-context enqueue calls of one producer.
QueryNext ==
  \/ \E t \in Producer : swift_task_enqueueMainExecutor(t)
  \/ Step
  \/ \E h \in {"null", "count"} : SetHook("Main", h)
  \/ \E x \in Executors :
       swift_concurrency_setMainActorExecutor(x, "Self", WitnessTable(x))
  \/ GetMainExecutorCall
  \/ \E ref \in Refs : IsMainExecutorCall(ref)

QuerySpec == InitFor(Builds) /\ [][QueryNext]_vars

\* The main-context entry point, the override and the serial contexts,
\* in every build configuration.
MainNext ==
  \/ \E t \in Threads : swift_task_enqueueMainExecutor(t)
  \/ Step
  \/ \E h \in {"null", "delegate"} : SetHook("Main", h)
  \/ \E x \in Executors :
       swift_concurrency_setMainActorExecutor(x, "Self", WitnessTable(x))
  \/ \E c \in Contexts : SerialStart(c)
  \/ \E c \in Contexts : SerialFinish(c)

MainSpec == InitFor(Builds) /\ [][MainNext]_vars

\* ------------------------------------------------------------ helpers
\* The call that submitted Job j went straight to the default
\* implementation of its entry point e (no hook was installed).
Direct(j, e) == viaEntry[j] = e /\ routed[j] = <<OriginalOf(e)>>

\* Position of x in the sequence s, 0 if x is not in s.
Pos(s, x) == IF \E i \in 1..Len(s) : s[i] = x
               THEN CHOOSE i \in 1..Len(s) : s[i] = x
               ELSE 0

\* Job j is inside a call of entry point e that has not tested the slot.
Entering(j, e) ==
  \E t \in Threads :
    pc[t] = "check" /\ frame[t].job = j /\ frame[t].entry = e

\* ============================================================= claims

\* C1: a Job submitted via swift_task_enqueueGlobal while no hook is
\* installed on that entry point is eventually invoked, and no Job is ever
\* invoked more than once (fair threads and workers).
C1_ImmediateRunsOnce ==
  \A j \in Jobs :
    /\ [](runs[j] <= 1)
    /\ (Entering(j, "Global") /\ hook["Global"] = "null") ~> (runs[j] = 1)

C1_Witness ==
  \E j \in Jobs : Direct(j, "Global") /\ runs[j] = 1 /\ ranOn[j] = "worker"

\* C2 as stated: main-context Jobs (no hook) run in exactly the order in
\* which their enqueue calls returned.
C2_RunInCompletionOrder ==
  \A a, b \in Jobs :
    ( /\ Direct(a, "Main") /\ Direct(b, "Main")
      /\ Pos(retOrder, a) > 0
      /\ Pos(retOrder, a) < Pos(retOrder, b)
      /\ Pos(runOrder, b) > 0 )
    => (Pos(runOrder, a) > 0 /\ Pos(runOrder, a) < Pos(runOrder, b))

\* C2 amended: main-context Jobs (no hook) are handed to the main queue and
\* executed by the main thread only, one at a time, and a Job whose
\* enqueue call returned before another's began runs before it.
C2_MainOrder ==
  /\ \A j \in Jobs :
       Direct(j, "Main") =>
         /\ j \notin ready
         /\ \/ Pos(queue["main"], j) > 0 /\ runs[j] = 0
            \/ ranOn[j] = "main" /\ runs[j] = 1
  /\ Cardinality({j \in running : ranOn[j] = "main"}) <= 1
  /\ \A a, b \in Jobs :
       ( /\ Direct(a, "Main") /\ Direct(b, "Main")
         /\ Pos(retOrder, a) > 0
         /\ Pos(retOrder, a) <= began[b]
         /\ Pos(runOrder, b) > 0 )
       => (Pos(runOrder, a) > 0 /\ Pos(runOrder, a) < Pos(runOrder, b))

C2_Witness ==
  \E a, b \in Jobs :
    /\ Direct(a, "Main") /\ Direct(b, "Main")
    /\ Pos(retOrder, a) > 0
    /\ Pos(retOrder, a) <= began[b]
    /\ Pos(runOrder, a) > 0
    /\ Pos(runOrder, a) < Pos(runOrder, b)
    /\ b \in running

\* C3: a Job submitted via swift_task_enqueueGlobalWithDelay with delay d
\* (no hook) has waited at least d ticks since the enqueue call when it
\* starts executing.
C3_DelayLowerBound ==
  \A j \in Jobs :
    (Direct(j, "Delay") /\ runs[j] > 0) => waited[j] >= need[j]

C3_Witness ==
  \E j \in Jobs :
    /\ Direct(j, "Delay")
    /\ runs[j] = 1
    /\ need[j] = MaxDelay
    /\ waited[j] >= MaxDelay

\* C4: a Job submitted via swift_task_enqueueGlobalWithDeadline with
\* deadline t and current-time sample n (no hook) has waited at least t - n
\* ticks since the enqueue call when it starts executing.
C4_DeadlineLowerBound ==
  \A j \in Jobs :
    (Direct(j, "Deadline") /\ runs[j] > 0) => waited[j] >= need[j]

C4_Witness ==
  \E j \in Jobs :
    /\ Direct(j, "Deadline")
    /\ runs[j] = 1
    /\ need[j] > 1
    /\ waited[j] >= need[j]

\* Job j is inside a call that has not yet invoked a hook or implementation.
BeforeInvoke(j) ==
  \E t \in Threads :
    frame[t].job = j /\ pc[t] \in {"check", "hook", "impl"}

\* What a call that found the value h in the slot of entry point e invokes.
Expected(e, h) == IF h # "null" THEN h ELSE OriginalOf(e)

\* C5: a call to an entry point invokes the hook installed in its slot
\* when the call is made, and the default implementation when the slot is
\* clear then - also after a hook has been installed and cleared again.
C5_HookRouting ==
  \A j \in Jobs :
    /\ BeforeInvoke(j) => routed[j] = <<>>
    /\ (viaEntry[j] # "none" /\ ~BeforeInvoke(j)) =>
         routed[j] = <<Expected(viaEntry[j], slotAt[j])>>

C5_Witness ==
  \E a, b \in Jobs :
    /\ a < b
    /\ viaEntry[a] = viaEntry[b]
    /\ routed[a] \in {<<"count">>, <<"delegate">>}
    /\ routed[b] = <<OriginalOf(viaEntry[b])>>

\* C6: with the counting hook installed on swift_task_enqueueGlobal, the
\* counter equals the number of enqueue calls made, and none of their
\* Jobs reaches the backend or is executed.
Suppressed ==
  {j \in Jobs : viaEntry[j] = "Global" /\ slotAt[j] = "count"}

C6_CountingHook ==
  /\ \A j \in Suppressed : runs[j] = 0 /\ j \notin ready
  /\ hookCount["Global"] = Cardinality({j \in Suppressed : ~BeforeInvoke(j)})

C6_Witness ==
  /\ Quiescent
  /\ Cardinality(Suppressed) >= 2
  /\ hookCount["Global"] = Cardinality(Suppressed)

\* C7: once an override is installed, isMainExecutor is true of a
\* reference built from the override's identity and false of the previous
\* default main executor.
C7_OverrideIsMain ==
  idCell # NullId =>
    /\ isMainExecutor(forOrdinary(idCell, implCell))
    /\ ~isMainExecutor(swift_task_getMainExecutor)

\* C8: a Job submitted via swift_task_enqueueMainExecutor (no hook) after
\* an override has been installed is handed to the override's executor and
\* not to the built-in main queue.
C8_OverrideReceivesJobs ==
  \A j \in Jobs :
    (Direct(j, "Main") /\ idCell \in Executors /\ j >= ovSeq) =>
      /\ j \notin ready
      /\ Pos(queue["main"], j) = 0
      /\ ranOn[j] # "main"
      /\ \/ Pos(queue[idCell], j) > 0 /\ runs[j] = 0
         \/ ranOn[j] = idCell /\ runs[j] = 1

C8_Witness ==
  \E j \in Jobs :
    /\ Direct(j, "Main")
    /\ idCell \in Executors
    /\ j >= ovSeq
    /\ ranOn[j] = idCell
    /\ runs[j] = 1

\* C9: every call to an enqueue entry point emits exactly one trace event,
\* of the entry point's kind, for its Job.
TraceKinds ==
  {"job_enqueue_global", "job_enqueue_global_with_delay",
   "job_enqueue_global_with_deadline", "job_enqueue_main_executor"}

C9_OneTraceEvent ==
  \A j \in Jobs :
    viaEntry[j] # "none" => (Len(trace[j]) = 1 /\ trace[j][1] \in TraceKinds)

InCall == {t \in Threads : pc[t] \in {"check", "hook", "impl", "ret"}}

\* C11 (as stated): the enqueue call returns before the Job starts, i.e.
\* no Job has started while the call that submits it is still in progress.
C11_ReturnsBeforeStart ==
  \A t \in InCall : runs[frame[t].job] = 0

\* C11 (amended): no entry point executes the Job on the calling thread
\* or makes the caller wait: a Job that has run was first handed on by its
\* call and ran on a backend-owned thread (a worker or a serial context),
\* and a thread inside a call can always take its next step, up to and
\* including the return, whether or not the Job has started.
C11_NeverInline ==
  /\ \A j \in Jobs :
       runs[j] > 0 =>
         /\ routed[j] # <<>>
         /\ ranOn[j] \in {"worker"} \cup Contexts
  /\ \A t \in InCall :
       ENABLED (LoadHook(t) \/ InvokeHook(t) \/ InvokeImpl(t) \/ Return(t))

\* One call is about to return after its Job has already run on a worker,
\* while the Job of an earlier, completed call has not started yet.
C11_Witness ==
  \E t \in Threads :
    /\ pc[t] = "ret"
    /\ runs[frame[t].job] = 1
    /\ ranOn[frame[t].job] = "worker"
    /\ \E j \in Jobs :
         /\ j # frame[t].job
         /\ routed[j] # <<>>
         /\ runs[j] = 0

\* ------------------------------------------------------------ C12
\* Jobs that wait in the timed structure.
TimedJobs == {x[1] : x \in timed}

\* C12: a Job submitted through swift_task_enqueueGlobalWithDelay with a
\* zero or negative delay is never in the timed wait structure, and once
\* the default implementation has been called it is where an immediate
\* Job would be: in the concurrent queue, or already run by a worker.
C12_NonPositiveDelayIsImmediate ==
  \A j \in Jobs :
    (viaEntry[j] = "Delay" /\ need[j] <= 0) =>
      /\ j \notin TimedJobs
      /\ Direct(j, "Delay") =>
           \/ j \in ready
           \/ runs[j] = 1 /\ ranOn[j] = "worker"

\* A Job with a negative delay has run without the clock advancing, and
\* a Job with a zero delay is in the concurrent queue.
C12_Witness ==
  \E i, j \in Jobs :
    /\ Direct(i, "Delay") /\ need[i] < 0
    /\ runs[i] = 1 /\ waited[i] = 0
    /\ Direct(j, "Delay") /\ need[j] = 0
    /\ j \in ready

\* ------------------------------------------------------------ C13
\* Number of times Job j occurs in the queues of the serial contexts.
Queued(j) ==
  Cardinality({<<c, i>> \in Contexts \X (1..MaxJobs) :
                 i <= Len(queue[c]) /\ queue[c][i] = j})

\* C13: under every interleaving of calls of swift_task_enqueueMainExecutor
\* from several threads (no hook installed), a Job handed to the default
\* implementation is always either once in the main queue or run once by
\* the main context, never both and never twice, and it is eventually run.
C13_MainRunsEachOnce ==
  /\ [](\A j \in Jobs :
         /\ Queued(j) + runs[j] <= 1
         /\ Direct(j, "Main") =>
              /\ Queued(j) + runs[j] = 1
              /\ runs[j] = 1 => ranOn[j] = "main")
  /\ \A j \in Jobs :
       (Entering(j, "Main") /\ hook["Main"] = "null")
         ~> (runs[j] = 1 /\ ranOn[j] = "main")

\* Two calls overlapped (the second began before the first returned), the
\* later call handed its Job over first, and both Jobs were run once by
\* the main context.
C13_Witness ==
  \E i, j \in Jobs :
    /\ i < j
    /\ Direct(i, "Main") /\ Direct(j, "Main")
    /\ began[j] = 0
    /\ runOrder = <<j, i>>
    /\ runs[i] = 1 /\ runs[j] = 1

\* ------------------------------------------------------------ C14
\* Job j has been handed to the backend and has not been taken for
\* execution: it is in the concurrent queue, in the timed structure or in
\* the queue of a serial context.
Pending(j) == j \in ready \/ j \in TimedJobs \/ Queued(j) > 0

\* C14: no step of the interface (an entry point, a hook installation,
\* the override setter) or of the backend takes a Job out of the pending
\* set other than by executing it.
C14_NoWithdrawal ==
  [][\A j \in Jobs :
       (Pending(j) /\ ~Pending(j)') => runs'[j] = runs[j] + 1]_vars

\* The override has been installed while a Job sits in the built-in main
\* queue, where it still is, and a delayed Job has left the pending set
\* by running.
C14_Witness ==
  \E i, j \in Jobs :
    /\ idCell = "exA"
    /\ i < ovSeq
    /\ Queued(i) = 1 /\ \E n \in 1..Len(queue["main"]) : queue["main"][n] = i
    /\ viaEntry[j] = "Delay"
    /\ runs[j] = 1 /\ ~Pending(j)

\* ------------------------------------------------------------ C15
\* C15: at process start all four hook slots are null, and a call that
\* finds its slot null never takes the hook branch and invokes the default
\* implementation of its entry point, directly and nothing else.
C15_UnsetSlotsCallDefault ==
  /\ \A e \in Entries : hook[e] = "null"
  /\ [](\A j \in Jobs :
         (viaEntry[j] # "none" /\ slotAt[j] = "null") =>
           /\ \A t \in Threads : frame[t].job = j => pc[t] # "hook"
           /\ routed[j] \in {<<>>, <<OriginalOf(viaEntry[j])>>}
           /\ ~BeforeInvoke(j) => routed[j] # <<>>)

\* A call on a slot that is unset again has invoked the default
\* implementation, after an earlier call was given to a hook.
C15_Witness ==
  \E i, j \in Jobs :
    /\ i < j
    /\ viaEntry[j] # "none"
    /\ slotAt[j] = "null"
    /\ routed[j] = <<OriginalOf(viaEntry[j])>>
    /\ routed[i] = <<"delegate">>

\* ------------------------------------------------------------ C17
\* Direct invocations of a hook, and of the default implementation, made
\* by the call that submitted Job j.
HookCalls(j) ==
  Cardinality({i \in 1..Len(routed[j]) :
                 routed[j][i] \in HookKinds \ {"null"}})
DefaultCalls(j) ==
  Cardinality({i \in 1..Len(routed[j]) :
                 routed[j][i] = OriginalOf(viaEntry[j])})

\* C17: a call that has passed its branch has made exactly one direct
\* invocation - of the hook if the slot was set, of the default
\* implementation if it was unset - and no thread is left without one.
C17_ExactlyOneInvoked ==
  /\ \A t \in Threads : pc[t] # "crashed"
  /\ \A j \in Jobs :
       (viaEntry[j] # "none" /\ ~BeforeInvoke(j)) =>
         /\ HookCalls(j) + DefaultCalls(j) = 1
         /\ HookCalls(j) = 1 <=> slotAt[j] # "null"
         /\ DefaultCalls(j) = 1 <=> slotAt[j] = "null"

\* Two calls of one entry point have returned, one made with the slot
\* set and one with the slot unset.
C17_Witness ==
  /\ Quiescent
  /\ \E i, j \in Jobs :
       /\ viaEntry[i] = viaEntry[j]
       /\ viaEntry[i] # "none"
       /\ HookCalls(i) = 1 /\ DefaultCalls(i) = 0
       /\ HookCalls(j) = 0 /\ DefaultCalls(j) = 1

\* ------------------------------------------------------------ C16
\* C16: as long as no override has been installed, the identity cell and
\* the implementation cell hold the identity and the implementation of the
\* backend's built-in main executor.
C16_CellsHoldBuiltinMain ==
  ovSeq = 0 =>
    /\ idCell = swift_task_getMainExecutor.identity
    /\ implCell = swift_task_getMainExecutor.impl

\* ------------------------------------------------------------ C18
\* Arguments the caller of the call in frame f supplied, by position.
CallerArgs(f) == <<f.job, f.delay, f.sec, f.nsec, f.tsec, f.tnsec, f.clock>>

\* Arguments the hook or implementation received, by position.
ReceivedArgs(j) ==
  <<passed[j].job, passed[j].delay, passed[j].sec, passed[j].nsec,
    passed[j].tsec, passed[j].tnsec, passed[j].clock>>

\* C18: when an entry point has invoked the hook or the default
\* implementation, what that function received is the caller's Job and the
\* caller's delay, sec, nsec, tsec, tnsec and clock, each in its own
\* position; before the invocation nothing has been passed.
C18_ArgsUnchanged ==
  \A t \in Threads :
    /\ pc[t] = "ret" => ReceivedArgs(frame[t].job) = CallerArgs(frame[t])
    /\ pc[t] \in {"check", "hook", "impl"} => passed[frame[t].job] = NoArgs

\* A deadline call has handed sec = 1, nsec = 0, tsec = 0, tnsec = 1 to a
\* hook while a delay call has handed its delay to the implementation.
C18_Witness ==
  \E t, u \in Threads :
    /\ pc[t] = "ret"
    /\ frame[t].entry = "Deadline"
    /\ routed[frame[t].job] = <<"delegate">>
    /\ ReceivedArgs(frame[t].job) = <<frame[t].job, 0, 1, 0, 0, 1, 1>>
    /\ pc[u] = "ret"
    /\ frame[u].entry = "Delay"
    /\ Direct(frame[u].job, "Delay")
    /\ passed[frame[u].job].delay = MaxDelay

\* ------------------------------------------------------------ C19
\* C19: in every entry point the trace event of the call has been emitted
\* when the hook slot is about to be consulted, and so a call whose hook
\* suppressed the Job has its trace event as well.
C19_TraceBeforeHook ==
  /\ \A t \in Threads : pc[t] = "check" => trace[frame[t].job] # <<>>
  /\ \A j \in Jobs : routed[j] = <<"count">> => trace[j] # <<>>

\* ------------------------------------------------------------ C20
\* Job j is where the default implementation of its entry point puts a
\* Job with its arguments, or has gone from there to execution: the same
\* backend queue, under the same least wait.
PlacedAsDefault(j) ==
  CASE viaEntry[j] = "Global" ->
         /\ j \notin TimedJobs /\ Queued(j) = 0
         /\ (j \in ready) # (runs[j] = 1 /\ ranOn[j] = "worker")
    [] viaEntry[j] \in {"Delay", "Deadline"} ->
         /\ Queued(j) = 0
         /\ need[j] <= 0 => j \notin TimedJobs
         /\ j \in TimedJobs => (j \notin ready /\ runs[j] = 0)
         /\ j \notin TimedJobs =>
              /\ (j \in ready) # (runs[j] = 1 /\ ranOn[j] = "worker")
              /\ waited[j] >= need[j]
    [] viaEntry[j] = "Main" ->
         /\ j \notin ready /\ j \notin TimedJobs
         /\ Queued(j) + runs[j] = 1
         /\ Queued(j) = 1 => \E n \in 1..Len(queue["main"]) : queue["main"][n] = j
         /\ runs[j] = 1 => ranOn[j] = "main"

\* C20: a Job whose call went through a hook that calls the original once
\* with the arguments it got is in the backend exactly as a Job whose call
\* found no hook: same queue, same least wait, and main-context Jobs of
\* delegated and direct calls run in the order they were submitted.
C20_DelegateIsTransparent ==
  /\ \A j \in Jobs :
       (viaEntry[j] # "none" /\ routed[j] # <<>>) =>
         /\ routed[j] \in {<<"delegate">>, <<OriginalOf(viaEntry[j])>>}
         /\ PlacedAsDefault(j)
         /\ trace[j] = TraceEvents(viaEntry[j])
  /\ \A i, j \in Jobs :
       (i < j /\ viaEntry[i] = "Main" /\ viaEntry[j] = "Main" /\ runs[j] = 1) =>
         /\ runs[i] = 1
         /\ Pos(runOrder, i) < Pos(runOrder, j)

\* Two delayed Jobs, one submitted through a delegating hook and one with
\* no hook, have both waited their delay and run on a worker.
C20_Witness ==
  \E i, j \in Jobs :
    /\ viaEntry[i] = "Delay" /\ routed[i] = <<"delegate">>
    /\ viaEntry[j] = "Delay" /\ Direct(j, "Delay")
    /\ need[i] > 0 /\ need[j] = need[i]
    /\ runs[i] = 1 /\ runs[j] = 1
    /\ waited[i] >= need[i] /\ waited[j] >= need[j]

\* ------------------------------------------------------------ C21
\* The backend default implementations, as opposed to the public entry
\* points.
ImplNames ==
  {"swift_task_enqueueGlobalImpl", "swift_task_enqueueGlobalWithDelayImpl",
   "swift_task_enqueueGlobalWithDeadlineImpl",
   "swift_task_enqueueMainExecutorImpl"}

\* Number of places the backend holds Job j in, plus the times it ran.
Held(j) ==
  (IF j \in ready THEN 1 ELSE 0) + (IF j \in TimedJobs THEN 1 ELSE 0)
    + Queued(j) + runs[j]

\* C21: the original handed to a hook is a backend default implementation;
\* when a delegating hook has called it, the hook was entered once, the
\* call has the single trace event of its entry point (none for the
\* deadline entry point) and the backend received the Job once.
C21_OriginalIsImpl ==
  /\ \A e \in Entries : OriginalOf(e) \in ImplNames
  /\ \A j \in Jobs :
       (routed[j] # <<>> /\ routed[j][1] = "delegate") =>
         /\ HookCalls(j) = 1
         /\ Len(trace[j]) = Len(TraceEvents(viaEntry[j]))
         /\ Len(trace[j]) <= 1
         /\ Held(j) = 1

\* A delegating hook of a tracing entry point has called the original.
C21_Witness ==
  \E t \in Threads :
    /\ pc[t] = "ret"
    /\ frame[t].entry # "Deadline"
    /\ routed[frame[t].job] = <<"delegate">>
    /\ Len(trace[frame[t].job]) = 1
    /\ Held(frame[t].job) = 1

\* ------------------------------------------------------------ C22
\* C22: a step that changes the hook slot of one entry point leaves the
\* other three slots as they were, and the branch a call takes and the
\* function it invokes follow the slot of its own entry point alone.
C22_SlotsIndependent ==
  /\ [][\A e \in Entries :
          hook'[e] # hook[e] =>
            \A o \in Entries \ {e} : hook'[o] = hook[o]]_vars
  /\ [](\A t \in Threads :
          /\ pc[t] = "hook" => hook[frame[t].entry] # "null"
          /\ pc[t] = "impl" => hook[frame[t].entry] = "null"
          /\ pc[t] = "ret" =>
               routed[frame[t].job] =
                 <<Expected(frame[t].entry, hook[frame[t].entry])>>)

\* With a hook in the slot of one entry point only, a call of another
\* entry point has invoked its default implementation, after a call of
\* the hooked entry point went to the hook.
C22_Witness ==
  \E t \in Threads, i \in Jobs :
    /\ pc[t] = "ret"
    /\ routed[i] = <<"count">>
    /\ hook[viaEntry[i]] = "count"
    /\ \A o \in Entries \ {viaEntry[i]} : hook[o] = "null"
    /\ frame[t].entry # viaEntry[i]
    /\ routed[frame[t].job] = <<OriginalOf(frame[t].entry)>>

\* ------------------------------------------------------------ C29
\* C29: the hook slots change only in a step that installs or clears a
\* hook, and the override cells change only in a step of
\* swift_concurrency_setMainActorExecutor; the steps of the enqueue entry
\* points and the two main-executor queries leave all of them as they are.
C29_OnlyConfigWrites ==
  [][/\ hook' # hook => \E e \in Entries, h \in HookKinds : SetHook(e, h)
     /\ (idCell' # idCell \/ implCell' # implCell) =>
          \E x \in Executors :
            swift_concurrency_setMainActorExecutor(x, "Self", WitnessTable(x))
     /\ (pc' # pc \/ query' # query) =>
          (hook' = hook /\ idCell' = idCell /\ implCell' = implCell)]_vars

\* With a hook installed and the override in place, a call through the
\* hook is returning and isMainExecutor has been asked about the result of
\* swift_task_getMainExecutor.
C29_Witness ==
  \E t \in Threads :
    /\ pc[t] = "ret"
    /\ routed[frame[t].job] = <<"count">>
    /\ hook[frame[t].entry] = "count"
    /\ idCell = "exA" /\ implCell = WitnessTable("exA")
    /\ query.op = "isMain"
    /\ query.ref = swift_task_getMainExecutor

\* ------------------------------------------------------------ C23
\* C23: two executor references with the same identity compare equal and
\* get the same answer from isMainExecutor, whatever their witness
\* tables; so the answer to a query made holds for every reference with
\* the identity asked about.
C23_ByIdentityOnly ==
  /\ \A a, b \in Refs :
       a.identity = b.identity =>
         /\ ExecutorRefEq(a, b)
         /\ isMainExecutor(a) = isMainExecutor(b)
  /\ query.op = "isMain" =>
       \A r \in Refs :
         r.identity = query.ref.identity => isMainExecutor(r) = query.ans

\* isMainExecutor has answered true for a reference that has the identity
\* of the built-in main executor and another witness table.
C23_Witness ==
  /\ query.op = "isMain"
  /\ query.ans
  /\ query.ref.identity = swift_task_getMainExecutor.identity
  /\ query.ref.impl # swift_task_getMainExecutor.impl

\* ------------------------------------------------------------ C24
\* C24: under every combination of the two build flags exactly one
\* backend engine is included: the cooperative one when the cooperative
\* flag is set, otherwise the dispatch one when the dispatch flag is set,
\* otherwise the non-dispatch fallback.
C24_OneBackend ==
  /\ Cardinality(IncludedBackends(build)) = 1
  /\ build.coop =>
       IncludedBackends(build) = {"CooperativeGlobalExecutor.inc"}
  /\ (~build.coop /\ build.dispatch) =>
       IncludedBackends(build) = {"DispatchGlobalExecutor.inc"}
  /\ (~build.coop /\ ~build.dispatch) =>
       IncludedBackends(build) = {"NonDispatchGlobalExecutor.inc"}

\* A program built with both flags set is running on the cooperative
\* engine and has made a main-executor query.
C24_Witness ==
  /\ build.coop /\ build.dispatch
  /\ IncludedBackends(build) = {"CooperativeGlobalExecutor.inc"}
  /\ query.op # "none"

\* ------------------------------------------------------------ C25
\* C25: a call that runs while its slot is cleared or replaced never calls
\* through a null hook reference: having found a hook when it consulted
\* the slot, it invokes that hook.
C25_SlotReadOnce ==
  \A t \in Threads :
    /\ pc[t] # "crashed"
    /\ pc[t] = "ret" =>
         routed[frame[t].job] = <<Expected(frame[t].entry, frame[t].hk)>>

\* ------------------------------------------------------------ C26
\* C26: in every build configuration isMainExecutor is false of the
\* generic reference, the reference to the global concurrent executor.
C26_GenericIsNotMain ==
  /\ ~isMainExecutor(GenericRef)
  /\ (query.op = "isMain" /\ isGeneric(query.ref)) => ~query.ans

\* ------------------------------------------------------------ C27
\* C27: in every build configuration, before and after an override is
\* installed, isMainExecutor is true of the reference that
\* swift_task_getMainExecutor returns, and of every reference it returned.
C27_MainExecutorIsMain ==
  /\ isMainExecutor(swift_task_getMainExecutor)
  /\ query.op = "getMain" => isMainExecutor(query.ref)
  /\ (query.op = "isMain" /\ query.ref = swift_task_getMainExecutor) =>
       query.ans

\* With an override installed, isMainExecutor has been asked about the
\* reference swift_task_getMainExecutor returns and has answered true.
C27_Witness ==
  /\ idCell \in Executors
  /\ query.op = "isMain"
  /\ query.ref = swift_task_getMainExecutor
  /\ query.ans

\* ------------------------------------------------------------ C28
\* C28: when the cooperative engine is the selected backend, the main
\* executor is the generic reference: swift_task_getMainExecutor returns
\* it, and isMainExecutor is true of it and false of the dispatch main
\* queue.
C28_MainMatchesBackend ==
  IncludedBackends(build) = {"CooperativeGlobalExecutor.inc"} =>
    /\ swift_task_getMainExecutor = GenericRef
    /\ isMainExecutor(GenericRef)
    /\ ~isMainExecutor(forOrdinary(DispatchMainQ, "dispatch_queue_wtable"))

\* ------------------------------------------------------------ C30
\* The delayed and the deadline entry point.
TimedEntries == {"Delay", "Deadline"}

\* C30: a Job submitted through the delayed or the deadline entry point
\* while no hook is installed there is held by the backend exactly once
\* until it runs, never runs before it has waited the time asked for,
\* never runs twice, and (fair backend, advancing clock) eventually runs.
C30_TimedEventuallyOnce ==
  /\ [](\A j \in Jobs :
         /\ runs[j] <= 1
         /\ (viaEntry[j] \in TimedEntries /\ runs[j] = 1) =>
              waited[j] >= need[j]
         /\ (\E e \in TimedEntries : Direct(j, e)) => Held(j) = 1)
  /\ \A j \in Jobs, e \in TimedEntries :
       (Entering(j, e) /\ hook[e] = "null")
         ~> (runs[j] = 1 /\ waited[j] >= need[j])

\* A delayed Job and a deadline Job, both submitted with no hook and with
\* a wait to serve, have run once after that wait.
C30_Witness ==
  \E i, j \in Jobs :
    /\ Direct(i, "Delay") /\ need[i] > 0
    /\ Direct(j, "Deadline") /\ need[j] > 0
    /\ runs[i] = 1 /\ waited[i] >= need[i]
    /\ runs[j] = 1 /\ waited[j] >= need[j]

\* ------------------------------------------------------------------------
\* Derived conformances (lib/Sema/DerivedConformances.cpp)
\* ------------------------------------------------------------------------

\* Largest number of elements of an enum.
MaxCases == 3

\* The kinds Protocol->getKnownDerivableProtocolKind() can yield that the
\* file names; "NotDerivable" is a protocol without one.
DerivableKinds ==
  {"OptionSet", "Hashable", "AdditiveArithmetic", "Differentiable",
   "PointwiseMultiplicative", "ElementaryFunctions", "KeyPathIterable",
   "TensorArrayProtocol", "TensorGroup", "VectorProtocol",
   "EuclideanDifferentiable", "RawRepresentable", "Equatable", "Comparable",
   "CaseIterable", "BridgedNSError", "CodingKey", "Encodable", "Decodable"}
Protocols == DerivableKinds \cup {"NotDerivable"}

\* Kinds of derivable protocol answered by a canDerive* helper before the
\* kind of the nominal is looked at.
HelperKinds ==
  {"Hashable", "AdditiveArithmetic", "Differentiable",
   "PointwiseMultiplicative", "ElementaryFunctions", "KeyPathIterable",
   "TensorArrayProtocol", "TensorGroup", "VectorProtocol",
   "EuclideanDifferentiable"}

RawTypes == {"none", "String", "Int", "other"}

\* A nominal type declaration, by what the two functions read of it:
\*   kind        EnumDecl, StructDecl, ClassDecl or another NominalTypeDecl
\*   noPayload   hasOnlyCasesWithoutAssociatedValues()
\*   hasCases    hasCases()
\*   unavailable hasPotentiallyUnavailableCaseValue()
\*   objc        isObjC()
\*   raw         getRawType(): none, String, Int or another type
\*   final       isFinal()
EnumDecls ==
  {d \in [kind : {"enum"}, noPayload : BOOLEAN, hasCases : BOOLEAN,
          unavailable : BOOLEAN, objc : BOOLEAN, raw : RawTypes,
          final : {TRUE}] :
     ~d.hasCases => (d.noPayload /\ ~d.unavailable)}
OtherDecls ==
  {d \in [kind : {"struct", "class", "protocol"}, noPayload : {FALSE},
          hasCases : {FALSE}, unavailable : {FALSE}, objc : {FALSE},
          raw : {"none"}, final : BOOLEAN] :
     d.kind # "class" => d.final}
Nominals == EnumDecls \cup OtherDecls

\* checkAndDiagnoseDisallowedContext: the result and the diagnostics emitted.
\* scope is whether the nominal's module-scope context is the conformance
\* context's; ctor is isa<ConstructorDecl>(synthesizing); ext is
\* isa<ExtensionDecl>(ConformanceDecl).
checkAndDiagnoseDisallowedContext_noEnumTest(Nominal, Protocol, scope, ctor, ext) ==
  LET allowCrossfileExtensions == Protocol \in {"Equatable", "Hashable"}
  IN IF ~allowCrossfileExtensions /\ ~scope
       THEN [ret |-> TRUE,
             diags |-> <<"cannot_synthesize_in_crossfile_extension",
                         "kind_declared_here">>]
     ELSE IF Nominal.kind = "class" /\ ~Nominal.final /\ ctor /\ ext
       THEN [ret |-> TRUE,
             diags |-> <<"cannot_synthesize_init_in_extension_of_nonfinal">>]
     ELSE [ret |-> FALSE, diags |-> <<>>]

checkAndDiagnoseDisallowedContext(Nominal, Protocol, scope, ctor, ext) ==
  LET allowCrossfileExtensions ==
        IF Protocol \in {"Equatable", "Hashable"}
          THEN Nominal.kind = "enum" /\ Nominal.noPayload
          ELSE FALSE
  IN IF ~allowCrossfileExtensions /\ ~scope
       THEN [ret |-> TRUE,
             diags |-> <<"cannot_synthesize_in_crossfile_extension",
                         "kind_declared_here">>]
     ELSE IF Nominal.kind = "class" /\ ~Nominal.final /\ ctor /\ ext
       THEN [ret |-> TRUE,
             diags |-> <<"cannot_synthesize_init_in_extension_of_nonfinal">>]
     ELSE [ret |-> FALSE, diags |-> <<>>]

\* The contexts a conformance can be declared in: on the nominal itself, in
\* the nominal's own module-scope context, or in an extension, in the same
\* module-scope context or another one.
ConformanceContexts ==
  {c \in [scope : BOOLEAN, ext : BOOLEAN] : ~c.ext => c.scope}

\* The calls of checkAndDiagnoseDisallowedContext awaiting evaluation; a
\* conformance of a protocol is not synthesized for a protocol declaration.
CheckInputs ==
  {i \in [op : {"check"}, called : {FALSE}, nominal : Nominals,
          protocol : Protocols, context : ConformanceContexts,
          ctor : BOOLEAN] :
     i.nominal.kind # "protocol"}

CheckContextCall ==
  /\ sema.op = "check"
  /\ ~sema.called
  /\ sema' = [op |-> "check", called |-> TRUE, nominal |-> sema.nominal,
              protocol |-> sema.protocol, context |-> sema.context,
              ctor |-> sema.ctor,
              out |-> checkAndDiagnoseDisallowedContext(
                        sema.nominal, sema.protocol, sema.context.scope,
                        sema.ctor, sema.context.ext)]
  /\ UNCHANGED <<build, hook, idCell, implCell, ovSeq, query, thrVars,
                 obsVars, beVars>>

\* The element lists getAllElements() can yield: the elements of an enum in
\* declaration order, each declared once.
ElementIds == 1..MaxCases
ElementLists ==
  {e \in UNION {[1..n -> ElementIds] : n \in 0..MaxCases} :
     \A i, k \in DOMAIN e : i # k => e[i] # e[k]}

\* The loop of convertEnumToIndex over the elements left, with the running
\* index and the cases built so far: each case matches one element and
\* assigns the index variable the literal index++.
RECURSIVE convertEnumToIndex_loop_preIncrement(_, _, _)
convertEnumToIndex_loop_preIncrement(elts, index, cases) ==
  IF elts = <<>> THEN cases
  ELSE convertEnumToIndex_loop_preIncrement(
         Tail(elts), index + 1,
         Append(cases, [pattern |-> Head(elts), assign |-> index + 1]))

RECURSIVE convertEnumToIndex_loop(_, _, _)
convertEnumToIndex_loop(elts, index, cases) ==
  IF elts = <<>> THEN cases
  ELSE convertEnumToIndex_loop(
         Tail(elts), index + 1,
         Append(cases, [pattern |-> Head(elts), assign |-> index]))

\* convertEnumToIndex: the statements appended (the binding of the index
\* variable, then the switch over the enum value) and the expression
\* returned (a reference to the index variable).
convertEnumToIndex(allElements) ==
  [stmts |-> <<[stmt |-> "bind", var |-> "indexVar"],
               [stmt |-> "switch", subject |-> "enumVar",
                cases |-> convertEnumToIndex_loop(allElements, 0, <<>>)]>>,
   ret |-> "indexVar"]

ConvertInputs == [op : {"convert"}, called : {FALSE}, elements : ElementLists]

ConvertEnumCall ==
  /\ sema.op = "convert"
  /\ ~sema.called
  /\ sema' = [op |-> "convert", called |-> TRUE, elements |-> sema.elements,
              out |-> convertEnumToIndex(sema.elements)]
  /\ UNCHANGED <<build, hook, idCell, implCell, ovSeq, query, thrVars,
                 obsVars, beVars>>

\* derivesProtocolConformance. can is the answer of the one canDerive*
\* helper the call consults, if it consults one.
derivesProtocolConformance_classAsStruct(Nominal, Protocol, can) ==
  IF Protocol \notin DerivableKinds THEN FALSE
  ELSE IF Protocol = "OptionSet" THEN FALSE
  ELSE IF Protocol \in HelperKinds THEN can
  ELSE IF Nominal.kind = "enum" THEN
    CASE Protocol = "RawRepresentable" -> can
      [] Protocol = "Equatable" -> can
      [] Protocol = "Comparable" -> ~Nominal.unavailable /\ can
      [] Protocol = "CaseIterable" ->
           ~Nominal.unavailable /\ Nominal.noPayload
      [] Protocol = "BridgedNSError" ->
           Nominal.objc /\ Nominal.hasCases /\ Nominal.noPayload
      [] Protocol = "CodingKey" ->
           IF Nominal.raw # "none"
             THEN Nominal.raw \in {"String", "Int"}
             ELSE Nominal.noPayload
      [] OTHER -> FALSE
  ELSE IF Nominal.kind \in {"struct", "class"} THEN
    IF Protocol \in {"Encodable", "Decodable"} THEN TRUE
    ELSE CASE Protocol = "Equatable" -> can
           [] OTHER -> FALSE
  ELSE FALSE

derivesProtocolConformance(Nominal, Protocol, can) ==
  IF Protocol \notin DerivableKinds THEN FALSE
  ELSE IF Protocol = "OptionSet" THEN FALSE
  ELSE IF Protocol \in HelperKinds THEN can
  ELSE IF Nominal.kind = "enum" THEN
    CASE Protocol = "RawRepresentable" -> can
      [] Protocol = "Equatable" -> can
      [] Protocol = "Comparable" -> ~Nominal.unavailable /\ can
      [] Protocol = "CaseIterable" ->
           ~Nominal.unavailable /\ Nominal.noPayload
      [] Protocol = "BridgedNSError" ->
           Nominal.objc /\ Nominal.hasCases /\ Nominal.noPayload
      [] Protocol = "CodingKey" ->
           IF Nominal.raw # "none"
             THEN Nominal.raw \in {"String", "Int"}
             ELSE Nominal.noPayload
      [] OTHER -> FALSE
  ELSE IF Nominal.kind \in {"struct", "class"} THEN
    IF Protocol \in {"Encodable", "Decodable"} THEN TRUE
    ELSE IF Nominal.kind = "struct" THEN
      CASE Protocol = "Equatable" -> can
        [] OTHER -> FALSE
    ELSE FALSE
  ELSE FALSE

DerivesInputs ==
  [op : {"derives"}, called : {FALSE}, nominal : Nominals,
   protocol : Protocols, can : BOOLEAN]

DerivesCall ==
  /\ sema.op = "derives"
  /\ ~sema.called
  /\ sema' = [op |-> "derives", called |-> TRUE, nominal |-> sema.nominal,
              protocol |-> sema.protocol, can |-> sema.can,
              out |-> derivesProtocolConformance(
                        sema.nominal, sema.protocol, sema.can)]
  /\ UNCHANGED <<build, hook, idCell, implCell, ovSeq, query, thrVars,
                 obsVars, beVars>>

\* One call of one of the three functions, on any input.
DeriveInit ==
  /\ ExecutorInit({DispatchBuild})
  /\ sema \in CheckInputs \cup ConvertInputs \cup DerivesInputs

DeriveNext ==
  \/ CheckContextCall
  \/ ConvertEnumCall
  \/ DerivesCall

DeriveSpec == DeriveInit /\ [][DeriveNext]_vars

\* ------------------------------------------------------------------------
\* C31: checkAndDiagnoseDisallowedContext returns true, with a diagnostic,
\* exactly when the conformance context is in another module-scope context
\* than the nominal and the case is not the exempt one (the protocol is
\* Equatable or Hashable and the nominal is an enum whose cases all lack
\* associated values), or when an initializer is synthesized in an extension
\* of a non-final class; in every other case it returns false and emits
\* nothing.
C31_Exempt ==
  /\ sema.protocol \in {"Equatable", "Hashable"}
  /\ sema.nominal.kind = "enum"
  /\ sema.nominal.noPayload

C31_InitInExtensionOfNonFinal ==
  /\ sema.nominal.kind = "class"
  /\ ~sema.nominal.final
  /\ sema.ctor
  /\ sema.context.ext

C31_DisallowedContext ==
  (sema.op = "check" /\ sema.called) =>
    /\ sema.out.ret =
         ((~sema.context.scope /\ ~C31_Exempt) \/ C31_InitInExtensionOfNonFinal)
    /\ sema.out.ret = (sema.out.diags # <<>>)

\* A conformance to Equatable declared in another module-scope context than
\* a payload-free enum was checked and allowed.
C31_Witness ==
  /\ sema.op = "check"
  /\ sema.called
  /\ ~sema.context.scope
  /\ C31_Exempt
  /\ ~sema.out.ret

\* ------------------------------------------------------------------------
\* C32: the switch convertEnumToIndex generates has one case per element of
\* the enum, in declaration order, the case of the i-th element assigning
\* the index i-1; so the indices are 0, 1, ..., n-1, distinct elements get
\* distinct indices, and every element has a case.
C32_Cases == sema.out.stmts[2].cases

C32_IndexPerElement ==
  (sema.op = "convert" /\ sema.called) =>
    /\ sema.out.stmts[2].stmt = "switch"
    /\ Len(C32_Cases) = Len(sema.elements)
    /\ \A i \in 1..Len(sema.elements) :
         /\ C32_Cases[i].pattern = sema.elements[i]
         /\ C32_Cases[i].assign = i - 1
    /\ \A i, k \in DOMAIN C32_Cases :
         C32_Cases[i].pattern # C32_Cases[k].pattern =>
           C32_Cases[i].assign # C32_Cases[k].assign
    /\ \A i \in DOMAIN sema.elements :
         \E k \in DOMAIN C32_Cases : C32_Cases[k].pattern = sema.elements[i]

\* An enum of several elements was converted and its last case assigns the
\* index n-1.
C32_Witness ==
  /\ sema.op = "convert"
  /\ sema.called
  /\ Len(sema.elements) >= 2
  /\ C32_Cases[Len(sema.elements)].assign = Len(sema.elements) - 1

\* ------------------------------------------------------------------------
\* C33: derivesProtocolConformance answers false for every nominal when the
\* protocol has no known derivable kind or is OptionSet; for a class it
\* answers false for Equatable, Comparable, CaseIterable, RawRepresentable,
\* CodingKey and BridgedNSError, whatever the canDerive* helpers say, and
\* among the protocols decided by the kind of the nominal it answers true
\* for a class exactly for Encodable and Decodable.
C33_EnumOnlyKinds ==
  {"Equatable", "Comparable", "CaseIterable", "RawRepresentable",
   "CodingKey", "BridgedNSError"}

C33_NeverDerived ==
  (sema.op = "derives" /\ sema.called) =>
    /\ sema.protocol \in {"NotDerivable", "OptionSet"} => ~sema.out
    /\ (sema.nominal.kind = "class" /\ sema.protocol \in C33_EnumOnlyKinds)
         => ~sema.out
    /\ (sema.nominal.kind = "class" /\ sema.protocol \notin HelperKinds)
         => (sema.out = (sema.protocol \in {"Encodable", "Decodable"}))

\* Equatable was asked of a class whose helper would have agreed, and the
\* answer was false.
C33_Witness ==
  /\ sema.op = "derives"
  /\ sema.called
  /\ sema.nominal.kind = "class"
  /\ sema.protocol = "Equatable"
  /\ sema.can
  /\ ~sema.out
====
